---- MODULE Spec2Model ----
(***************************************************************************)
(* Chokudai search with a time threshold on the grid maze                  *)
(* (src/bin/07_chokudai_search_with_time.rs), together with the game loop  *)
(* of test_ai_score that drives it.                                        *)
(*                                                                         *)
(* H, W and END_TURN are compile-time constants of the program (30, 30,    *)
(* 100 in 07; 3, 4, 4 in 02 and 03).  The model checks a family of small   *)
(* builds: every grid of at most MaxH x MaxW cells with a turn limit of at *)
(* most MaxEndTurn and every assignment of values 0..MaxPoint to its       *)
(* cells, and the 3 x 4 grid with turn limit 4 of 02/03 on fixed patterns. *)
(***************************************************************************)
EXTENDS Integers, Sequences, FiniteSets

VARIABLES
    H, W, END_TURN,   \* the build's constants (fixed by Init)
    state,            \* test_ai_score: `state`, the game's MazeState
    pc,               \* position in test_ai_score / the driver
    caller,           \* "loop": called by the game loop; "direct": called on its own
    beam,             \* driver: Vec<BinaryHeap<MazeState>>, each heap as its data array
    beam_width,       \* driver argument (i32)
    beam_depth,       \* driver argument (usize)
    time_threshold,   \* driver argument (Duration, in ticks)
    t, iter,          \* driver: the two for-loop counters (level, iteration in level)
    outcome,          \* how the last call ended
    ret,              \* the action the last call returned, as an Option
    sweeps,           \* history: sweeps completed by this call (saturates at SweepCap)
    prev_best         \* history: evaluation at the top of the deepest non-empty
                      \* queue at the previous sweep boundary, as an Option

vars == <<H, W, END_TURN, state, pc, caller, beam, beam_width, beam_depth,
          time_threshold, t, iter, outcome, ret, sweeps, prev_best>>

(***************************************************************************)
(* Bounds of the model.                                                    *)
(***************************************************************************)
MaxH == 1
MaxW == 1
MaxEndTurn == 2
MaxPoint == 2
MaxBeamWidth == 2
MaxThreshold == 1
SweepCap == 3

\* The constants of 02_test_random_score.rs / 03_test_greedy_score.rs.
SmallH == 3
SmallW == 4
SmallEndTurn == 4

(***************************************************************************)
(* Option<T>: None is the empty set, Some(a) the singleton.                *)
(***************************************************************************)
None == {}
Some(a) == {a}
TheValue(o) == CHOOSE a \in o : TRUE

Min(a, b) == IF a < b THEN a ELSE b

(***************************************************************************)
(* MazeState                                                               *)
(***************************************************************************)
dx == <<1, -1, 0, 0>>
dy == <<0, 0, 1, -1>>

\* MazeState::new: the character on a random cell, that cell worth 0, every
\* other cell a random value (0..9 in the source, 0..MaxPoint here).
NewState(h, w, cx, cy, pts) ==
    [points          |-> [y \in 0..(h - 1) |-> [x \in 0..(w - 1) |->
                            IF y = cy /\ x = cx THEN 0 ELSE pts[y][x]]],
     turn            |-> 0,
     character       |-> [x |-> cx, y |-> cy],
     game_score      |-> 0,
     evaluated_score |-> 0,
     first_action    |-> None,
     hist            |-> <<>>]   \* history: the actions applied since the root

is_done(s) == s.turn = END_TURN

\* Mutant: the turn counter is not incremented.
advance_NoTurn(s, action) ==
    LET cx == s.character.x + dx[action + 1]
        cy == s.character.y + dy[action + 1]
        p  == s.points[cy][cx]
    IN  [s EXCEPT !.character  = [x |-> cx, y |-> cy],
                  !.game_score = IF p > 0 THEN @ + p ELSE @,
                  !.points     = IF p > 0 THEN [@ EXCEPT ![cy][cx] = 0] ELSE @]

\* Mutant: the collected cell keeps its value.
advance_NoZero(s, action) ==
    LET cx == s.character.x + dx[action + 1]
        cy == s.character.y + dy[action + 1]
        p  == s.points[cy][cx]
    IN  [s EXCEPT !.character  = [x |-> cx, y |-> cy],
                  !.game_score = IF p > 0 THEN @ + p ELSE @,
                  !.turn       = @ + 1]

advance(s, action) ==
    LET cx == s.character.x + dx[action + 1]
        cy == s.character.y + dy[action + 1]
        p  == s.points[cy][cx]
    IN  [s EXCEPT !.character  = [x |-> cx, y |-> cy],
                  !.game_score = IF p > 0 THEN @ + p ELSE @,
                  !.points     = IF p > 0 THEN [@ EXCEPT ![cy][cx] = 0] ELSE @,
                  !.turn       = @ + 1]

evaluate_score(s) == [s EXCEPT !.evaluated_score = s.game_score]

\* Mutant: <= for < in the upper bounds.
InGrid_OffByOne(tx, ty) == ty >= 0 /\ ty <= H /\ tx >= 0 /\ tx <= W

InGrid(tx, ty) == ty >= 0 /\ ty < H /\ tx >= 0 /\ tx < W

legal_actions(s) ==
    SelectSeq(<<0, 1, 2, 3>>,
              LAMBDA action : InGrid(s.character.x + dx[action + 1],
                                     s.character.y + dy[action + 1]))

Range(seq) == {seq[k] : k \in 1..Len(seq)}

(***************************************************************************)
(* std::collections::BinaryHeap<MazeState>, ordered by Ord for MazeState   *)
(* (evaluated_score alone).  A heap is its data array; positions are the   *)
(* 0-based positions of the Rust code.                                     *)
(***************************************************************************)
Le(a, b) == a.evaluated_score <= b.evaluated_score

RECURSIVE SiftUpHole(_, _, _, _)
SiftUpHole(data, elt, start, pos) ==
    IF pos > start
    THEN LET parent == (pos - 1) \div 2
         IN  IF Le(elt, data[parent + 1])
             THEN [data EXCEPT ![pos + 1] = elt]
             ELSE SiftUpHole([data EXCEPT ![pos + 1] = data[parent + 1]],
                             elt, start, parent)
    ELSE [data EXCEPT ![pos + 1] = elt]

sift_up(data, start, pos) == SiftUpHole(data, data[pos + 1], start, pos)

RECURSIVE SiftDownHole(_, _, _)
\* Moves the hole at pos down to the bottom along the greater children and
\* returns <<data, final position of the hole>>.
SiftDownHole(data, pos, end) ==
    LET child == 2 * pos + 1
    IN  IF end >= 2 /\ child <= end - 2
        THEN LET c == IF Le(data[child + 1], data[child + 2])
                      THEN child + 1 ELSE child
             IN  SiftDownHole([data EXCEPT ![pos + 1] = data[c + 1]], c, end)
        ELSE IF child = end - 1
             THEN <<[data EXCEPT ![pos + 1] = data[child + 1]], child>>
             ELSE <<data, pos>>

sift_down_to_bottom(data, pos) ==
    LET elt == data[pos + 1]
        r   == SiftDownHole(data, pos, Len(data))
    IN  sift_up([r[1] EXCEPT ![r[2] + 1] = elt], pos, r[2])

\* Mutant: push without restoring the heap order.
HeapPush_NoSift(data, item) == Append(data, item)

HeapPush(data, item) == sift_up(Append(data, item), 0, Len(data))

\* BinaryHeap::pop on a non-empty heap: <<the item removed, the heap left>>.
HeapPop(data) ==
    LET n    == Len(data)
        last == data[n]
        rest == SubSeq(data, 1, n - 1)
    IN  IF rest = <<>>
        THEN <<last, rest>>
        ELSE <<data[1], sift_down_to_bottom([rest EXCEPT ![1] = last], 0)>>

\* Mutant: peek looks at the last slot of the heap, not the first.
HeapPeek_Last(data) == IF data = <<>> THEN None ELSE Some(data[Len(data)])

HeapPeek(data) == IF data = <<>> THEN None ELSE Some(data[1])

RECURSIVE PushAll(_, _)
PushAll(data, items) ==
    IF items = <<>> THEN data
    ELSE PushAll(HeapPush(data, Head(items)), Tail(items))


(***************************************************************************)
(* chokudai_search_action_with_time_threshold                              *)
(***************************************************************************)
\* beam[t] of the source is Beam(t) here (TLA+ sequences start at 1).
Beam(k) == beam[k + 1]

\* vec![BinaryHeap::new(); beam_depth + 1]; beam[0].push(state.clone())
InitialBeam(s, depth) ==
    [k \in 1..(depth + 1) |-> IF k = 1 THEN HeapPush(<<>>, s) ELSE <<>>]

\* Mutants: the tag stamped on every level; the tag never stamped.
StampFirstAction_Always(child, lvl, action) ==
    [child EXCEPT !.first_action = Some(action)]

StampFirstAction_Never(child, lvl, action) == child

\* The first-action tag of a child made on level lvl by `action`.
StampFirstAction(child, lvl, action) ==
    IF lvl = 0 THEN [child EXCEPT !.first_action = Some(action)] ELSE child

\* One child of now_state: clone, advance, evaluate_score, tag.
Child(now_state, lvl, action) ==
    LET next_state == StampFirstAction(
                          evaluate_score(advance(now_state, action)), lvl, action)
    IN  [next_state EXCEPT !.hist = Append(@, action)]

RECURSIVE Children_Shared(_, _, _)
\* Mutant: the children are made by advancing one shared state in turn, not a
\* fresh clone of now_state for each action.
Children_Shared(now_state, lvl, actions) ==
    IF actions = <<>> THEN <<>>
    ELSE LET c == Child(now_state, lvl, Head(actions))
         IN  <<c>> \o Children_Shared(c, lvl, Tail(actions))

RECURSIVE Children(_, _, _)
Children(now_state, lvl, actions) ==
    IF actions = <<>> THEN <<>>
    ELSE <<Child(now_state, lvl, Head(actions))>>
             \o Children(now_state, lvl, Tail(actions))

\* Mutant: the top is expanded but left in its queue.
ExpandBeam_NoPop(b, lvl) ==
    LET now_state == b[lvl + 1][1]
        kids      == Children(now_state, lvl, legal_actions(now_state))
    IN  [b EXCEPT ![lvl + 2] = PushAll(@, kids)]

\* One iteration of the inner loop that gets past both breaks: beam[lvl] loses
\* its top, beam[lvl + 1] gains one child per legal action of it.
ExpandBeam(b, lvl) ==
    LET popped    == HeapPop(b[lvl + 1])
        now_state == popped[1]
        kids      == Children(now_state, lvl, legal_actions(now_state))
    IN  [b EXCEPT ![lvl + 1] = popped[2],
                  ![lvl + 2] = PushAll(@, kids)]

\* Mutant: the break on a terminal top is missing.
LevelBreaks_NoDoneCheck(b, lvl) == b[lvl + 1] = <<>>

\* The two breaks of the inner loop.
LevelBreaks(b, lvl) ==
    IF b[lvl + 1] = <<>> THEN TRUE
    ELSE is_done(TheValue(HeapPeek(b[lvl + 1])))

\* for t in (0..=beam_depth).rev(): the first level, from k down, whose peek is
\* Some; None when there is none.
RECURSIVE ScanFrom(_, _)
ScanFrom(b, k) ==
    IF k < 0 THEN None
    ELSE IF HeapPeek(b[k + 1]) # None THEN Some(k)
    ELSE ScanFrom(b, k - 1)

\* Mutant: the scan without .rev(): the shallowest non-empty level.
ExtractLevel_Shallowest(b) ==
    IF \A k \in 1..Len(b) : b[k] = <<>> THEN None
    ELSE Some((CHOOSE k \in 1..Len(b) :
                  /\ b[k] # <<>>
                  /\ \A j \in 1..(k - 1) : b[j] = <<>>) - 1)

ExtractLevel(b) == ScanFrom(b, Len(b) - 1)

\* The node result extraction looks at, as an Option.
ExtractNode(b) ==
    IF ExtractLevel(b) = None THEN None
    ELSE HeapPeek(b[TheValue(ExtractLevel(b)) + 1])

\* debug_assert!(false) panics in a build with debug assertions and does
\* nothing in one without; Action::MAX is returned then.
NoQueueOutcomes == {"panic_debug_assert", "Action::MAX"}

\* Mutant: an absent tag is passed on as if it were an action.
UnwrapOutcome_Unchecked(tag) == "action"

\* Option::unwrap of the first-action tag.
UnwrapOutcome(tag) == IF tag = None THEN "panic_unwrap_none" ELSE "action"

Idle ==
    /\ beam' = <<>>
    /\ beam_width' = 0
    /\ beam_depth' = 0
    /\ time_threshold' = 0
    /\ t' = 0
    /\ iter' = 0
    /\ outcome' = "none"
    /\ ret' = None
    /\ sweeps' = 0
    /\ prev_best' = None
    /\ caller' = "none"

Enter(bw, depth, thr, who) ==
    /\ pc' = "sweep"
    /\ caller' = who
    /\ beam' = InitialBeam(state, depth)
    /\ beam_width' = bw
    /\ beam_depth' = depth
    /\ time_threshold' = thr
    /\ t' = 0
    /\ iter' = 0
    /\ outcome' = "none"
    /\ ret' = None
    /\ sweeps' = 0
    /\ prev_best' = None
    /\ UNCHANGED <<H, W, END_TURN, state>>

\* test_ai_score: the loop body's call, made while the game is not over.
LoopCall ==
    /\ pc = "main"
    /\ ~is_done(state)
    /\ \E thr \in 1..MaxThreshold : Enter(1, END_TURN, thr, "loop")

\* A call of the driver with arguments of the caller's choice.
DirectCall ==
    /\ pc = "main"
    /\ \E bw \in (-1)..MaxBeamWidth, depth \in 0..(END_TURN + 1),
          thr \in 0..MaxThreshold :
           Enter(bw, depth, thr, "direct")

\* Mutant: the inner loop without its range 0..beam_width.
Expand_NoWidthLimit ==
    /\ pc = "sweep"
    /\ t < beam_depth
    /\ ~LevelBreaks(beam, t)
    /\ beam' = ExpandBeam(beam, t)
    /\ iter' = iter + 1
    /\ UNCHANGED <<H, W, END_TURN, state, pc, caller, beam_width, beam_depth,
                   time_threshold, t, outcome, ret, sweeps, prev_best>>

Expand ==
    /\ pc = "sweep"
    /\ t < beam_depth
    /\ iter < beam_width
    /\ ~LevelBreaks(beam, t)
    /\ beam' = ExpandBeam(beam, t)
    /\ iter' = iter + 1
    /\ UNCHANGED <<H, W, END_TURN, state, pc, caller, beam_width, beam_depth,
                   time_threshold, t, outcome, ret, sweeps, prev_best>>

\* The inner loop ends (its range is used up, or one of the breaks is taken)
\* and the outer loop moves to the next level.
LevelEnd ==
    /\ pc = "sweep"
    /\ t < beam_depth
    /\ (iter >= beam_width \/ LevelBreaks(beam, t))
    /\ t' = t + 1
    /\ iter' = 0
    /\ UNCHANGED <<H, W, END_TURN, state, pc, caller, beam, beam_width,
                   beam_depth, time_threshold, outcome, ret, sweeps, prev_best>>

\* The outer for loop is over: one sweep is complete.
SweepEnd ==
    /\ pc = "sweep"
    /\ t >= beam_depth
    /\ pc' = "check"
    /\ sweeps' = Min(sweeps + 1, SweepCap)
    /\ UNCHANGED <<H, W, END_TURN, state, caller, beam, beam_width, beam_depth,
                   time_threshold, t, iter, outcome, ret, prev_best>>

BestEval(b) ==
    IF ExtractNode(b) = None THEN None
    ELSE Some(TheValue(ExtractNode(b)).evaluated_score)

\* Mutant: > for >=.
Expired_Strict(elapsed, threshold) == elapsed > threshold

\* time_keeper.elapsed() >= time_threshold
Expired(elapsed, threshold) == elapsed >= threshold

\* if time_keeper.elapsed() >= time_threshold { break; }
TimeExpired ==
    /\ pc = "check"
    /\ \E elapsed \in 0..MaxThreshold : Expired(elapsed, time_threshold)
    /\ pc' = "extract"
    /\ UNCHANGED <<H, W, END_TURN, state, caller, beam, beam_width, beam_depth,
                   time_threshold, t, iter, outcome, ret, sweeps, prev_best>>

TimeRemaining ==
    /\ pc = "check"
    /\ \E elapsed \in 0..MaxThreshold : ~Expired(elapsed, time_threshold)
    /\ pc' = "sweep"
    /\ t' = 0
    /\ iter' = 0
    /\ prev_best' = BestEval(beam)
    /\ UNCHANGED <<H, W, END_TURN, state, caller, beam, beam_width, beam_depth,
                   time_threshold, outcome, ret, sweeps>>

\* Mutant: extraction takes any node of greatest evaluation in the deepest
\* non-empty queue, not the one the heap keeps on top.
Extract_AnyBest ==
    /\ pc = "extract"
    /\ \/ /\ ExtractNode(beam) # None
          /\ \E i \in 1..Len(beam[TheValue(ExtractLevel(beam)) + 1]) :
                LET q   == beam[TheValue(ExtractLevel(beam)) + 1]
                    tag == q[i].first_action
                IN  /\ \A j \in 1..Len(q) :
                          q[j].evaluated_score <= q[i].evaluated_score
                    /\ outcome' = UnwrapOutcome(tag)
                    /\ ret' = IF UnwrapOutcome(tag) = "action" THEN tag ELSE None
                    /\ pc' = IF UnwrapOutcome(tag) = "action"
                             THEN "returned" ELSE "panicked"
       \/ /\ ExtractNode(beam) = None
          /\ \E o \in NoQueueOutcomes :
                /\ outcome' = o
                /\ pc' = IF o = "Action::MAX" THEN "returned" ELSE "panicked"
          /\ ret' = None
    /\ UNCHANGED <<H, W, END_TURN, state, caller, beam, beam_width, beam_depth,
                   time_threshold, t, iter, sweeps, prev_best>>

\* Result extraction: lines 159-165.
Extract ==
    /\ pc = "extract"
    /\ \/ /\ ExtractNode(beam) # None
          /\ LET tag == TheValue(ExtractNode(beam)).first_action
             IN  /\ outcome' = UnwrapOutcome(tag)
                 /\ ret' = IF UnwrapOutcome(tag) = "action" THEN tag ELSE None
                 /\ pc' = IF UnwrapOutcome(tag) = "action"
                          THEN "returned" ELSE "panicked"
       \/ /\ ExtractNode(beam) = None
          /\ \E o \in NoQueueOutcomes :
                /\ outcome' = o
                /\ pc' = IF o = "Action::MAX" THEN "returned" ELSE "panicked"
          /\ ret' = None
    /\ UNCHANGED <<H, W, END_TURN, state, caller, beam, beam_width, beam_depth,
                   time_threshold, t, iter, sweeps, prev_best>>

\* state.advance(<the action returned>) in the game loop.  Action::MAX is no
\* index of dx: the indexing panics and the program is aborted.
LoopAdvance ==
    /\ pc = "returned"
    /\ caller = "loop"
    /\ \/ /\ outcome = "action"
          /\ state' = advance(state, TheValue(ret))
          /\ pc' = "main"
          /\ Idle
       \/ /\ outcome = "Action::MAX"
          /\ pc' = "aborted"
          /\ UNCHANGED <<state, caller, beam, beam_width, beam_depth,
                         time_threshold, t, iter, outcome, ret, sweeps,
                         prev_best>>
    /\ UNCHANGED <<H, W, END_TURN>>

\* A call made on its own returns to its caller; the game is as it was.
DirectReturn ==
    /\ pc = "returned"
    /\ caller = "direct"
    /\ pc' = "main"
    /\ Idle
    /\ UNCHANGED <<H, W, END_TURN, state>>

\* while !state.is_done() ends.
LoopExit ==
    /\ pc = "main"
    /\ is_done(state)
    /\ pc' = "finished"
    /\ UNCHANGED <<H, W, END_TURN, state, caller, beam, beam_width, beam_depth,
                   time_threshold, t, iter, outcome, ret, sweeps, prev_best>>

(***************************************************************************)
(* Initial states                                                          *)
(***************************************************************************)
\* The fixed patterns of the 3 x 4 scenario, row by row: one of mixed values,
\* one in which most scores tie.
ScenarioPoints ==
    {<<<<4, 6, 1, 3>>, <<0, 0, 2, 0>>, <<7, 5, 6, 6>>>>,
     <<<<1, 1, 0, 1>>, <<1, 0, 1, 1>>, <<0, 1, 2, 1>>>>}

InitBoard(h, w, e, s) ==
    /\ H = h
    /\ W = w
    /\ END_TURN = e
    /\ state = s
    /\ pc = "main"
    /\ caller = "none"
    /\ beam = <<>>
    /\ beam_width = 0
    /\ beam_depth = 0
    /\ time_threshold = 0
    /\ t = 0
    /\ iter = 0
    /\ outcome = "none"
    /\ ret = None
    /\ sweeps = 0
    /\ prev_best = None

InitFamily ==
    \E h \in 1..MaxH, w \in 1..MaxW, e \in 1..MaxEndTurn :
      \E cx \in 0..(w - 1), cy \in 0..(h - 1),
         pts \in [0..(h - 1) -> [0..(w - 1) -> 0..MaxPoint]] :
           InitBoard(h, w, e, NewState(h, w, cx, cy, pts))

InitScenario ==
    \E cx \in 0..(SmallW - 1), cy \in 0..(SmallH - 1), rows \in ScenarioPoints :
       InitBoard(SmallH, SmallW, SmallEndTurn,
                 NewState(SmallH, SmallW, cx, cy,
                          [y \in 0..(SmallH - 1) |-> [x \in 0..(SmallW - 1) |->
                              rows[y + 1][x + 1]]]))

Init == InitFamily \/ InitScenario

Next ==
    \/ LoopCall
    \/ DirectCall
    \/ Expand
    \/ LevelEnd
    \/ SweepEnd
    \/ TimeExpired
    \/ TimeRemaining
    \/ Extract
    \/ LoopAdvance
    \/ DirectReturn
    \/ LoopExit

Spec == Init /\ [][Next]_vars


(***************************************************************************)
(* Vocabulary of the properties                                            *)
(***************************************************************************)
\* The game loop alone (test_ai_score): every call is the loop's.  A step of
\* the running program is always taken; the deadline test reads a clock that
\* only goes up, so in a run that keeps reaching it it is met at some point.
GameNext ==
    \/ LoopCall
    \/ Expand
    \/ LevelEnd
    \/ SweepEnd
    \/ TimeExpired
    \/ TimeRemaining
    \/ Extract
    \/ LoopAdvance
    \/ LoopExit

\* The position of the program: every step of the loop changes it.
position == <<pc, t, iter>>

\* What an expansion does to the position.
ExpandProgress ==
    /\ pc = "sweep"
    /\ t < beam_depth
    /\ iter < beam_width
    /\ ~LevelBreaks(beam, t)
    /\ iter' = iter + 1
    /\ UNCHANGED <<pc, t>>

\* Any step of the loop; an expansion is told by its counter.
GameProgress ==
    \/ LoopCall
    \/ ExpandProgress
    \/ LevelEnd
    \/ SweepEnd
    \/ TimeExpired
    \/ TimeRemaining
    \/ Extract
    \/ LoopAdvance
    \/ LoopExit

GameSpec ==
    /\ Init /\ [][GameNext]_vars
    /\ WF_position(GameProgress)
    /\ SF_position(TimeExpired)

InCall == pc \in {"sweep", "check", "extract", "returned", "panicked", "aborted"}

Ended == pc \in {"returned", "panicked", "aborted"}

\* The root of the running call is `state`: the driver only reads it.
RootLegal == Range(legal_actions(state))

\* beamWidth >= 1, depthLimit >= 1, the root not terminal and not stuck.
GoodCall ==
    /\ beam_width >= 1
    /\ beam_depth >= 1
    /\ ~is_done(state)
    /\ RootLegal # {}

Levels == 0..beam_depth

Nodes(k) == Range(Beam(k))

ReturnedLegalAction ==
    /\ outcome = "action"
    /\ ret # None
    /\ TheValue(ret) \in RootLegal

Remaining == END_TURN - state.turn

RECURSIVE Replay(_, _)
\* The state reached from s by the actions of h, in order.
Replay(s, h) == IF h = <<>> THEN s ELSE Replay(advance(s, Head(h)), Tail(h))

SamePosition(a, b) ==
    /\ a.points = b.points
    /\ a.turn = b.turn
    /\ a.character = b.character
    /\ a.game_score = b.game_score

MaxOf(S) == CHOOSE m \in S : \A n \in S : n <= m

RECURSIVE BruteBest(_, _)
\* The greatest game score over all sequences of n legal actions from s.
BruteBest(s, n) ==
    IF n = 0 \/ legal_actions(s) = <<>> THEN s.game_score
    ELSE MaxOf({BruteBest(advance(s, a), n - 1) : a \in Range(legal_actions(s))})

Exhausted == \A k \in 0..(beam_depth - 1) : Beam(k) = <<>>

RECURSIVE LevelLoop(_, _, _, _)
\* for _ in 0..bw { break / break / one expansion } on level lvl, from the
\* i-th iteration on, as a function of the queues.
LevelLoop(b, lvl, i, bw) ==
    IF i >= bw \/ LevelBreaks(b, lvl) THEN b
    ELSE LevelLoop(ExpandBeam(b, lvl), lvl, i + 1, bw)

RECURSIVE SweepFrom(_, _, _, _)
\* for t in lvl..depth: the rest of one sweep.
SweepFrom(b, lvl, depth, bw) ==
    IF lvl >= depth THEN b
    ELSE SweepFrom(LevelLoop(b, lvl, 0, bw), lvl + 1, depth, bw)

RECURSIVE BeamAfter(_, _, _, _)
\* The queues after n complete sweeps of a call on `root`.
BeamAfter(root, bw, depth, n) ==
    IF n = 0 THEN InitialBeam(root, depth)
    ELSE SweepFrom(BeamAfter(root, bw, depth, n - 1), 0, depth, bw)

\* The tag extraction takes after n complete sweeps; None also when no queue
\* holds a node.
RunResult(root, bw, depth, n) ==
    LET node == ExtractNode(BeamAfter(root, bw, depth, n))
    IN  IF node = None THEN None ELSE TheValue(node).first_action

(***************************************************************************)
(* C1: a call with beamWidth >= 1, depthLimit >= 1 and a root that is      *)
(* neither terminal nor stuck ends by returning a legal action of the      *)
(* root: the unwrap never meets None and Action::MAX is never returned.    *)
(***************************************************************************)
C1_ReturnsLegalAction == (Ended /\ GoodCall) => ReturnedLegalAction

C1_Witness ==
    /\ pc = "returned"
    /\ GoodCall
    /\ beam_depth >= 2
    /\ Cardinality(RootLegal) >= 3
    /\ ReturnedLegalAction

(***************************************************************************)
(* C2: with beamWidth = 1 and depthLimit = END_TURN from a root at turn 0, *)
(* once every queue below depthLimit is exhausted the action returned      *)
(* starts a sequence of END_TURN legal actions of greatest final score.    *)
(***************************************************************************)
C2_ExhaustedIsBruteForce ==
    (/\ pc = "returned"
     /\ GoodCall
     /\ beam_width = 1
     /\ beam_depth = END_TURN
     /\ state.turn = 0
     /\ Exhausted)
    => /\ ReturnedLegalAction
       /\ BruteBest(advance(state, TheValue(ret)), END_TURN - 1)
            = BruteBest(state, END_TURN)

\* The 3 x 4 scenario, on a root from which not every first action is best.
C2_Witness ==
    /\ pc = "returned"
    /\ H = SmallH /\ W = SmallW /\ END_TURN = SmallEndTurn
    /\ GoodCall
    /\ beam_width = 1
    /\ beam_depth = END_TURN
    /\ state.turn = 0
    /\ Exhausted
    /\ ReturnedLegalAction
    /\ \E a \in RootLegal :
          BruteBest(advance(state, a), END_TURN - 1) < BruteBest(state, END_TURN)

(***************************************************************************)
(* C3: from one sweep boundary to the next the evaluation at the top of    *)
(* the deepest non-empty queue (the node a return would take) never gets   *)
(* lower.                                                                  *)
(***************************************************************************)
C3_BestEvalMonotone ==
    (pc = "check" /\ prev_best # None)
    => /\ BestEval(beam) # None
       /\ TheValue(BestEval(beam)) >= TheValue(prev_best)

C3_Witness ==
    /\ pc = "check"
    /\ prev_best # None
    /\ BestEval(beam) # None
    /\ TheValue(BestEval(beam)) > TheValue(prev_best)

(***************************************************************************)
(* C4: the deadline is tested only after a complete sweep: the time check  *)
(* is reached with every level 0..depthLimit-1 passed; with a budget of    *)
(* zero the run ends after exactly one sweep, and for beamWidth >= 1,      *)
(* depthLimit >= 1 and a root neither terminal nor stuck it ends by        *)
(* returning a legal action of the root.  A run with a budget of zero      *)
(* never starts a second sweep.                                            *)
(***************************************************************************)
C4_ZeroBudgetOneSweep ==
    /\ (pc = "check") => (t = beam_depth /\ sweeps >= 1)
    /\ (pc = "extract" \/ Ended) => sweeps >= 1
    /\ (time_threshold = 0 /\ (pc = "extract" \/ Ended)) => sweeps = 1
    /\ (time_threshold = 0 /\ Ended /\ GoodCall) => ReturnedLegalAction
    /\ (time_threshold = 0 /\ pc = "sweep")
          => (sweeps = 0 /\ t <= beam_depth /\ (iter = 0 \/ iter <= beam_width))

C4_Witness ==
    /\ pc = "returned"
    /\ time_threshold = 0
    /\ GoodCall
    /\ beam_depth >= 2
    /\ sweeps = 1
    /\ ReturnedLegalAction

(***************************************************************************)
(* C5: when depthLimit exceeds the turns remaining from the root, no node  *)
(* with turn > END_TURN exists, every queue deeper than the remaining      *)
(* turns is empty, the queue at depth = remaining turns holds terminal     *)
(* nodes only, and the call (beamWidth >= 1, root neither terminal nor     *)
(* stuck) does not fail.                                                   *)
(***************************************************************************)
C5_DepthBeyondTerminal ==
    (InCall /\ beam_depth > Remaining)
    => /\ \A k \in Levels : \A n \in Nodes(k) : n.turn <= END_TURN
       /\ \A k \in Levels : k > Remaining => Beam(k) = <<>>
       /\ \A k \in Levels : k = Remaining => \A n \in Nodes(k) : is_done(n)
       /\ (Ended /\ GoodCall) => ReturnedLegalAction

C5_Witness ==
    /\ pc = "returned"
    /\ caller = "loop"
    /\ state.turn >= 1
    /\ beam_depth > Remaining
    /\ Beam(Remaining) # <<>>
    /\ \A n \in Nodes(Remaining) : is_done(n)
    /\ ReturnedLegalAction

(***************************************************************************)
(* C6: every node in a queue at depth k >= 1 is the root advanced by the   *)
(* k actions it was produced by, its first-action tag is the first of      *)
(* them, and that is a legal action of the root; a node in queue 0 has no  *)
(* tag.                                                                    *)
(***************************************************************************)
C6_FirstActionTag ==
    InCall =>
      \A k \in Levels : \A n \in Nodes(k) :
         /\ Len(n.hist) = k
         /\ SamePosition(n, Replay(state, n.hist))
         /\ (k = 0) => n.first_action = None
         /\ (k >= 1) => /\ n.first_action = Some(n.hist[1])
                        /\ n.hist[1] \in RootLegal

C6_Witness ==
    /\ pc = "sweep"
    /\ \E k \in Levels : \E n \in Nodes(k) :
          /\ k >= 3
          /\ n.first_action = Some(n.hist[1])
          /\ n.hist[1] # n.hist[2]
          /\ n.hist[1] # n.hist[3]

(***************************************************************************)
(* C7: a call with depthLimit = 0 or beamWidth <= 0 ends in a failure (the *)
(* panic of unwrap on the root's absent tag) and returns no action.        *)
(***************************************************************************)
C7_DegenerateConfigFails ==
    (Ended /\ (beam_depth = 0 \/ beam_width <= 0))
    => /\ pc = "panicked"
       /\ outcome = "panic_unwrap_none"
       /\ ret = None

C7_Witness ==
    /\ pc = "panicked"
    /\ beam_width = 0
    /\ beam_depth >= 1
    /\ sweeps >= 2
    /\ outcome = "panic_unwrap_none"

(***************************************************************************)
(* C8: the driver never silently returns an illegal action: on a stuck     *)
(* root, or when extraction finds every queue empty, the run ends in a     *)
(* loud failure and not in the sentinel Action::MAX.                       *)
(***************************************************************************)
C8_NoSilentSentinel ==
    (Ended /\ (RootLegal = {} \/ ExtractNode(beam) = None))
    => (pc = "panicked" /\ outcome # "Action::MAX")

(***************************************************************************)
(* C9: extraction takes queue 0 only when every deeper queue is empty, and *)
(* for beamWidth >= 1, depthLimit >= 1 and a root neither terminal nor     *)
(* stuck, at every sweep boundary queue 0 is empty and some deeper queue   *)
(* is not: the untagged root is never the node chosen.                     *)
(***************************************************************************)
C9_RootNeverChosen ==
    /\ (InCall /\ ExtractLevel(beam) = Some(0))
          => \A k \in 1..beam_depth : Beam(k) = <<>>
    /\ (pc \in {"check", "extract"} /\ GoodCall)
          => /\ Beam(0) = <<>>
             /\ \E k \in 1..beam_depth : Beam(k) # <<>>
             /\ ExtractLevel(beam) # Some(0)
    /\ (Ended /\ GoodCall) => outcome # "panic_unwrap_none"

C9_Witness ==
    /\ pc = "extract"
    /\ GoodCall
    /\ sweeps = 1
    /\ Beam(0) = <<>>
    /\ Beam(1) # <<>>
    /\ Beam(beam_depth) # <<>>
    /\ beam_depth >= 2

(***************************************************************************)
(* C10: every node in any queue, the root seeded into queue 0 included,    *)
(* has a cached evaluation equal to its own accumulated game score, in     *)
(* every call the game loop makes.                                         *)
(***************************************************************************)
C10_EvaluationIsGameScore ==
    (InCall /\ caller = "loop") =>
      \A k \in Levels : \A n \in Nodes(k) : n.evaluated_score = n.game_score

(***************************************************************************)
(* C11: every node in queue k has turn = root.turn + k, for every k in     *)
(* 0..depthLimit; so the nodes of one queue are terminal together or       *)
(* non-terminal together.                                                  *)
(***************************************************************************)
C11_DepthTurnConsistency ==
    InCall =>
      \A k \in Levels :
         /\ \A n \in Nodes(k) : n.turn = state.turn + k
         /\ \/ \A n \in Nodes(k) : is_done(n)
            \/ \A n \in Nodes(k) : ~is_done(n)

C11_Witness ==
    /\ pc = "sweep"
    /\ state.turn >= 1
    /\ \E k \in Levels :
          /\ k >= 2
          /\ Len(Beam(k)) >= 2
          /\ \A n \in Nodes(k) : n.turn = state.turn + k /\ is_done(n)
    /\ \E k \in Levels :
          /\ k >= 1
          /\ Len(Beam(k)) >= 2
          /\ \A n \in Nodes(k) : n.turn = state.turn + k /\ ~is_done(n)

\* The nodes of queue k with the greatest cached evaluation.
BestNodes(k) ==
    {n \in Nodes(k) : \A m \in Nodes(k) : m.evaluated_score <= n.evaluated_score}

\* Queue k is empty or its best node is terminal.
LevelStops(k) == Nodes(k) = {} \/ \E n \in BestNodes(k) : is_done(n)

(***************************************************************************)
(* C12: within one sweep the level index only moves from t to t + 1,       *)
(* starting a fresh count of removals, and the sweep ends only after level *)
(* depthLimit - 1; a queue changes only on a level below depthLimit, while *)
(* fewer than beamWidth nodes were removed from it in this sweep, and      *)
(* while it is non-empty with a non-terminal best node; otherwise the      *)
(* sweep moves on.  The queue at index depthLimit never loses a node.      *)
(***************************************************************************)
C12_SweepOrder ==
    [][ pc = "sweep" =>
          /\ pc' \in {"sweep", "check"}
          /\ pc' = "check" => t = beam_depth /\ beam' = beam
          /\ pc' = "sweep" =>
               /\ t < beam_depth
               /\ \/ t' = t /\ iter' = iter + 1 /\ beam' # beam
                  \/ t' = t + 1 /\ iter' = 0 /\ beam' = beam
          /\ beam' # beam =>
               /\ iter < beam_width
               /\ ~LevelStops(t)
               /\ iter' <= beam_width
               /\ Len(beam'[t + 1]) = Len(beam[t + 1]) - 1
          /\ (t < beam_depth /\ (LevelStops(t) \/ iter >= beam_width)) =>
               beam' = beam /\ t' = t + 1
          /\ Len(beam') = Len(beam)
          /\ Range(beam[beam_depth + 1]) \subseteq Range(beam'[beam_depth + 1])
          /\ Len(beam[beam_depth + 1]) <= Len(beam'[beam_depth + 1])
      ]_vars

\* The width limit stops a level that still holds non-terminal nodes, on a
\* level past the first, with nodes already in the deepest queue.
C12_Witness ==
    /\ pc = "sweep"
    /\ beam_width >= 2
    /\ iter = beam_width
    /\ t >= 1
    /\ t < beam_depth
    /\ ~LevelStops(t)
    /\ Nodes(beam_depth) # {}

\* c is the child of parent n by action a: the transition applied to n itself.
IsChildOf(c, n, a) ==
    /\ SamePosition(c, advance(n, a))
    /\ c.hist = Append(n.hist, a)

(***************************************************************************)
(* C13: a step of a call that changes a queue removes exactly one node,    *)
(* of maximum evaluation, from queue t and does not put it back, adds to   *)
(* queue t + 1 exactly one child per legal action of that node, each the   *)
(* transition applied to the parent itself whatever its siblings are, and  *)
(* leaves the other queues alone; no step of a call removes a node in any  *)
(* other way, and none changes the caller's root state.                    *)
(***************************************************************************)
C13_ExpansionStep ==
    [][ (InCall /\ pc' # "main") =>
          /\ state' = state
          /\ Len(beam') = Len(beam)
          /\ \/ beam' = beam
             \/ /\ pc = "sweep"
                /\ t \in 0..(beam_depth - 1)
                /\ \E n \in BestNodes(t) :
                     LET acts == legal_actions(n)
                         kids == Range(beam'[t + 2]) \ Nodes(t + 1)
                     IN  /\ Range(beam'[t + 1]) = Nodes(t) \ {n}
                         /\ Len(beam'[t + 1]) = Len(beam[t + 1]) - 1
                         /\ Nodes(t + 1) \subseteq Range(beam'[t + 2])
                         /\ Len(beam'[t + 2]) = Len(beam[t + 2]) + Len(acts)
                         /\ Cardinality(kids) = Len(acts)
                         /\ \A a \in Range(acts) :
                               \E c \in kids : IsChildOf(c, n, a)
                         /\ \A c \in kids :
                               \E a \in Range(acts) : IsChildOf(c, n, a)
                /\ \A k \in Levels \ {t, t + 1} : beam'[k + 1] = beam[k + 1]
      ]_vars

\* An expansion has just taken the better of several nodes off a level past
\* the first and given it three or more children; its poorer sibling is
\* still in the queue.
C13_Witness ==
    /\ pc = "sweep"
    /\ t >= 1
    /\ iter = 1
    /\ Nodes(t) # {}
    /\ \E k \in Levels :
          /\ k = t + 1
          /\ \E p \in Nodes(t) : \E c1, c2, c3 \in Nodes(k) :
                /\ c1.hist # c2.hist /\ c2.hist # c3.hist /\ c1.hist # c3.hist
                /\ \A c \in {c1, c2, c3} :
                      /\ Len(c.hist) = k
                      /\ SubSeq(c.hist, 1, t) # p.hist
                      /\ SubSeq(c.hist, 1, t) = SubSeq(c1.hist, 1, t)

\* The deepest non-empty queue's index; defined when some queue is non-empty.
DeepestLevel ==
    CHOOSE k \in Levels :
       /\ Nodes(k) # {}
       /\ \A j \in Levels : j > k => Nodes(j) = {}

\* Some shallower queue holds a higher evaluation than the deepest one.
ShallowerHigher ==
    \E k \in Levels : \E n \in Nodes(k) :
       /\ k < DeepestLevel
       /\ \A m \in Nodes(DeepestLevel) : n.evaluated_score > m.evaluated_score

(***************************************************************************)
(* C14: a call that ends with some queue non-empty takes the first-action  *)
(* tag of a node whose cached evaluation is the greatest in the deepest    *)
(* non-empty queue, whatever the shallower queues hold: it returns that    *)
(* tag, or fails when the node has none.  At any time the node at the top  *)
(* of a queue is one of greatest cached evaluation in that queue.          *)
(***************************************************************************)
C14_ExtractDeepestBest ==
    /\ InCall =>
         \A k \in Levels : \A i \in 1..Len(Beam(k)) :
            Beam(k)[i].evaluated_score
               <= TheValue(HeapPeek(Beam(k))).evaluated_score
    /\ (Ended /\ \E k \in Levels : Nodes(k) # {}) =>
         \E n \in BestNodes(DeepestLevel) :
            \/ outcome = "action" /\ ret = n.first_action /\ ret # None
            \/ outcome = "panic_unwrap_none" /\ n.first_action = None

\* A return taken from a queue at depth two or more that holds tags other
\* than the returned one on nodes of lower evaluation, with nodes left in a
\* shallower queue.
C14_Witness ==
    /\ pc = "returned"
    /\ outcome = "action"
    /\ \E k \in Levels : Nodes(k) # {}
    /\ DeepestLevel >= 2
    /\ \A n \in BestNodes(DeepestLevel) : n.first_action = ret
    /\ \E m \in Nodes(DeepestLevel) : m.first_action # ret
    /\ \E k \in Levels : k < DeepestLevel /\ Nodes(k) # {}

\* For reference: no return is taken while a shallower queue holds a higher
\* evaluation than the deepest one, since an expanded node's children score
\* at least as much as it does.
NoShallowerHigher ==
    (Ended /\ \E k \in Levels : Nodes(k) # {}) => ~ShallowerHigher

(***************************************************************************)
(* C15: the action a call returns is a function of the root, beamWidth,    *)
(* depthLimit and the number of sweeps completed: every run with the same  *)
(* four returns the same action, also when several nodes of the chosen     *)
(* queue share the greatest evaluation.  The frontier at every sweep       *)
(* boundary is a function of the same four as well.                        *)
(***************************************************************************)
C15_Deterministic ==
    /\ (pc = "returned" /\ outcome = "action" /\ sweeps < SweepCap) =>
          ret = RunResult(state, beam_width, beam_depth, sweeps)
    /\ (pc = "check" /\ sweeps < SweepCap) =>
          beam = BeamAfter(state, beam_width, beam_depth, sweeps)

\* A return after two sweeps, where one sweep would have given another
\* action, from a queue in which nodes with different tags share the
\* greatest evaluation.
C15_Witness ==
    /\ pc = "returned"
    /\ outcome = "action"
    /\ sweeps = 2
    /\ sweeps < SweepCap
    /\ beam_width >= 1
    /\ RunResult(state, beam_width, beam_depth, 1) # ret
    /\ \E k \in Levels : Nodes(k) # {}
    /\ \E n, m \in BestNodes(DeepestLevel) :
          /\ n.first_action = ret
          /\ m.first_action # ret
          /\ m.first_action # None

RECURSIVE SumCells(_, _)
\* The sum of the first n cells of a board, row by row.
SumCells(pts, n) ==
    IF n = 0 THEN 0
    ELSE pts[(n - 1) \div W][(n - 1) % W] + SumCells(pts, n - 1)

\* Accumulated score plus everything still on the board.
Total(s) == s.game_score + SumCells(s.points, H * W)

NoNegativeCell(s) == \A y \in 0..(H - 1) : \A x \in 0..(W - 1) : s.points[y][x] >= 0

\* What one advance of s by a does to score and board.
CollectsOnce(s, a) ==
    LET d  == advance(s, a)
        cx == d.character.x
        cy == d.character.y
        p  == s.points[cy][cx]
    IN  /\ d.game_score = s.game_score + (IF p > 0 THEN p ELSE 0)
        /\ d.game_score >= s.game_score
        /\ d.points[cy][cx] = 0
        /\ \A y \in 0..(H - 1) : \A x \in 0..(W - 1) :
              (y # cy \/ x # cx) => d.points[y][x] = s.points[y][x]
        /\ Total(d) = Total(s)

\* A node of a queue, against the root of the call.
NodeCollected(n) ==
    /\ NoNegativeCell(n)
    /\ Total(n) = Total(state)
    /\ n.game_score >= state.game_score

\* A step of the program.  The game state: no negative cell, and when it
\* changes it is by one legal advance that collects at most once.  The
\* frontier: the root seeded by a call, and on an expansion the node taken
\* off queue t and the nodes added to queue t + 1.
CollectStep ==
    /\ NoNegativeCell(state)
    /\ NoNegativeCell(state')
    /\ state.turn = 0 => state.game_score = 0
    /\ Total(state') = Total(state)
    /\ state'.game_score >= state.game_score
    /\ state' # state =>
         \E a \in Range(legal_actions(state)) :
            state' = advance(state, a) /\ CollectsOnce(state, a)
    /\ (pc = "main" /\ pc' = "sweep") =>
         \A n \in Range(beam'[1]) : NodeCollected(n)
    /\ (pc = "sweep" /\ beam' # beam) =>
         /\ \A n \in Nodes(t) \ Range(beam'[t + 1]) :
               \A a \in Range(legal_actions(n)) : CollectsOnce(n, a)
         /\ \A c \in Range(beam'[t + 2]) \ Nodes(t + 1) : NodeCollected(c)

(***************************************************************************)
(* C16: advance adds the destination cell's value to the score only when   *)
(* it is positive and then zeroes the cell, so in the game loop and for    *)
(* every node put into a queue the score plus the sum of the remaining     *)
(* cells stays equal to the initial sum of the cells (the score is 0 at    *)
(* turn 0), no cell is negative and the score never goes down.             *)
(***************************************************************************)
C16_CollectAtMostOnce == [][CollectStep]_vars

\* In a call made after the game has scored, a node that went to a cell
\* with points, came back and went there again: the second visit adds nothing.
C16_Witness ==
    /\ pc = "sweep"
    /\ state.game_score > 0
    /\ \E k \in Levels : \E n \in Nodes(k) :
          /\ Len(n.hist) >= 3
          /\ n.hist[1] = n.hist[3]
          /\ n.hist[2] # n.hist[1]
          /\ SubSeq(n.hist, 1, 3) \in {<<0, 1, 0>>, <<1, 0, 1>>, <<2, 3, 2>>, <<3, 2, 3>>}
          /\ advance(state, n.hist[1]).game_score > state.game_score
          /\ Replay(state, SubSeq(n.hist, 1, 3)).game_score
                = advance(state, n.hist[1]).game_score
          /\ Total(n) = Total(state)

\* The cell action a leads to from s: (x+1,y), (x-1,y), (x,y+1), (x,y-1).
Destination(s, a) ==
    CASE a = 0 -> [x |-> s.character.x + 1, y |-> s.character.y]
      [] a = 1 -> [x |-> s.character.x - 1, y |-> s.character.y]
      [] a = 2 -> [x |-> s.character.x,     y |-> s.character.y + 1]
      [] a = 3 -> [x |-> s.character.x,     y |-> s.character.y - 1]

\* The coordinate names a cell of the board s carries.
OnBoard(s, c) ==
    /\ 0 <= c.x /\ c.x < W
    /\ 0 <= c.y /\ c.y < H
    /\ c.y \in DOMAIN s.points
    /\ c.x \in DOMAIN s.points[c.y]

\* legal_actions(s) is the increasing list of exactly the directions whose
\* destination is on the board, and s stands on the board.
LegalAndInside(s) ==
    LET la == legal_actions(s)
    IN  /\ OnBoard(s, s.character)
        /\ Range(la) = {a \in 0..3 : OnBoard(s, Destination(s, a))}
        /\ \A i, j \in 1..Len(la) : i < j => la[i] < la[j]
        /\ \A a \in Range(la) : advance(s, a).character = Destination(s, a)

(***************************************************************************)
(* C17: legal_actions returns exactly the directions (1,0), (-1,0), (0,1), *)
(* (0,-1) whose destination is inside the H x W grid, in increasing index  *)
(* order; the game state and every node of every queue stand inside the    *)
(* grid, and every cell an advance by a legal action reads is a cell of    *)
(* the board.  The legal actions of a node are looked at when it enters a  *)
(* queue, its coordinate at every step.                                    *)
(***************************************************************************)
C17_LegalActionsInBounds ==
    [][ /\ LegalAndInside(state)
        /\ LegalAndInside(state')
        /\ (pc = "main" /\ pc' = "sweep") =>
              \A n \in Range(beam'[1]) : LegalAndInside(n)
        /\ (pc = "sweep" /\ beam' # beam) =>
              \A c \in Range(beam'[t + 2]) \ Nodes(t + 1) : LegalAndInside(c)
        /\ InCall =>
              \A k \in Levels : \A i \in 1..Len(Beam(k)) :
                 OnBoard(Beam(k)[i], Beam(k)[i].character)
      ]_vars

\* After the game has moved, a queue holds a node in the far corner (two
\* legal actions) and some queue a node with all four.
C17_Witness ==
    /\ pc = "sweep"
    /\ state.turn >= 1
    /\ \E k \in Levels : \E n \in Nodes(k) :
          /\ k >= 1
          /\ n.character = [x |-> W - 1, y |-> H - 1]
          /\ legal_actions(n) = <<1, 3>>
    /\ \E k \in Levels : \E n \in Nodes(k) :
          /\ k >= 1
          /\ legal_actions(n) = <<0, 1, 2, 3>>

\* The game state in the loop.
GameInv ==
    /\ state.turn \in 0..END_TURN
    /\ is_done(state) <=> state.turn = END_TURN
    /\ (InCall /\ caller = "loop") => ~is_done(state)
    /\ pc = "finished" => state.turn = END_TURN

\* The game state changes only by the loop's advance, which is one turn, and
\* the loop calls the policy only on a state that is not terminal.
LoopHead == pc = "main"

\* At the head of the loop on a board of more than one cell.
LoopHeadWithMoves == pc = "main" /\ H * W > 1

LoopOver == pc = "finished" /\ state.turn = END_TURN

GameStep ==
    /\ state' # state =>
         /\ pc = "returned" /\ caller = "loop"
         /\ ~is_done(state)
         /\ state'.turn = state.turn + 1
    /\ (pc = "main" /\ pc' = "sweep") => state.turn < END_TURN

GameLoopEndsWithMoves ==
    /\ []GameInv
    /\ [][GameStep]_vars
    /\ LoopHeadWithMoves ~> LoopOver

(***************************************************************************)
(* C19: a call on a root that is already terminal, with beamWidth >= 1 and *)
(* depthLimit >= 1, expands nothing in any sweep: queue 0 holds the root   *)
(* and nothing else, every deeper queue is empty, and the call ends in the *)
(* failed unwrap of the root's absent tag, never by returning.             *)
(***************************************************************************)
C19_TerminalRootFails ==
    (InCall /\ state.turn = END_TURN /\ beam_width >= 1 /\ beam_depth >= 1) =>
       /\ Len(Beam(0)) = 1
       /\ SamePosition(Beam(0)[1], state)
       /\ Beam(0)[1].first_action = None
       /\ Beam(0)[1].hist = <<>>
       /\ \A k \in 1..beam_depth : Beam(k) = <<>>
       /\ iter = 0
       /\ pc # "returned"
       /\ Ended => (pc = "panicked" /\ outcome = "panic_unwrap_none" /\ ret = None)

\* Such a call has failed after more than one sweep.
C19_Witness ==
    /\ pc = "panicked"
    /\ outcome = "panic_unwrap_none"
    /\ state.turn = END_TURN
    /\ beam_width >= 1
    /\ beam_depth >= 2
    /\ sweeps >= 2
    /\ Len(Beam(0)) = 1

====
